---- MODULE Spec2Model ----
(***************************************************************************)
(* Model of the Slack HTTP client of src/lib.rs: one SlackClient holding a *)
(* bot token, and the three async operations post_message, post_ephemeral  *)
(* and open_modal.  Each operation builds a JSON body, hands one request   *)
(* to the HTTP transport (send().await?), then decodes the response body   *)
(* into its response struct (resp.json::<T>().await?).                     *)
(*                                                                         *)
(* The transport and the remote service are the environment: whether the   *)
(* send fails, which status and which body come back, and whether reading  *)
(* the body fails, are nondeterministic choices.                           *)
(***************************************************************************)
EXTENDS Integers, Sequences, FiniteSets, Bags, TLC

MaxCalls == 2

CallIds == 1..MaxCalls

(***************************************************************************)
(* Option<T> and Result<T, reqwest::Error>                                 *)
(***************************************************************************)
None == [t |-> "None", v |-> ""]

Some(x) == [t |-> "Some", v |-> x]

Ok(x) == [t |-> "Ok", v |-> x]

Err(kind) == [t |-> "Err", v |-> kind]

(***************************************************************************)
(* serde_json::Value, as a tagged tree.  JText is a body that is not a    *)
(* JSON document at all (HTML error page, truncated text, empty body).     *)
(***************************************************************************)
JNull == [t |-> "null", v |-> ""]

JBool(b) == [t |-> "bool", v |-> b]

JNum(n) == [t |-> "num", v |-> n]

JStr(s) == [t |-> "str", v |-> s]

JArr(s) == [t |-> "arr", v |-> s]

JObj(f) == [t |-> "obj", v |-> f]

JText(s) == [t |-> "text", v |-> s]

Missing == [t |-> "missing", v |-> ""]

(***************************************************************************)
(* Request construction                                                    *)
(***************************************************************************)
\* body["blocks"] = blocks_json : insert (or overwrite) one key of an object
SetKey(obj, k, val) ==
  [x \in DOMAIN obj \cup {k} |-> IF x = k THEN val ELSE obj[x]]

\* variant: the blocks key is always written, null when blocks is None
post_message_body_null_blocks(channel, text, blocks) ==
  [channel |-> JStr(channel), text |-> JStr(text),
   blocks |-> IF blocks.t = "Some" THEN blocks.v ELSE JNull]

post_message_body(channel, text, blocks) ==
  LET body == [channel |-> JStr(channel), text |-> JStr(text)]
  IN  IF blocks.t = "Some" THEN SetKey(body, "blocks", blocks.v) ELSE body

post_ephemeral_body(channel, user_id, text, blocks) ==
  LET body == [channel |-> JStr(channel), user |-> JStr(user_id), text |-> JStr(text)]
  IN  IF blocks.t = "Some" THEN SetKey(body, "blocks", blocks.v) ELSE body

open_modal_body(trigger_id, view) ==
  [trigger_id |-> JStr(trigger_id), view |-> view]

url_post_message == "https://slack.com/api/chat.postMessage"

url_post_ephemeral == "https://slack.com/api/chat.postEphemeral"

url_open_modal == "https://slack.com/api/views.open"

\* variant: a fixed token instead of the client's
bearer_auth_hardcoded(tok) == [scheme |-> "Bearer", token |-> "xoxb-1"]

\* .bearer_auth(&self.token)
bearer_auth(tok) == [scheme |-> "Bearer", token |-> tok]

\* self.http_client.post(url).bearer_auth(&self.token).json(&body)
Request(url, tok, body) ==
  [method |-> "POST", url |-> url, auth |-> bearer_auth(tok), body |-> body]

(***************************************************************************)
(* Response decoding: serde_json::from_slice::<T> with the derived         *)
(* Deserialize of the response structs.  A derived struct is read from a   *)
(* JSON object by field name (unknown keys ignored, a missing Option field *)
(* is None, a missing non-Option field is an error) or from a JSON array   *)
(* of exactly its fields in declaration order.                             *)
(***************************************************************************)
StructShape(j, n) == j.t = "obj" \/ (j.t = "arr" /\ Len(j.v) = n)

Field(j, k, i) ==
  IF j.t = "obj"
    THEN (IF k \in DOMAIN j.v THEN j.v[k] ELSE Missing)
    ELSE j.v[i]

\* ok: bool
BoolOk(f) == f.t = "bool"

\* Option<String>
OptStringOk(f) == f.t \in {"missing", "null", "str"}

OptString(f) == IF f.t = "str" THEN Some(f.v) ELSE None

\* SlackView { id: String }
SlackViewOk(j) == StructShape(j, 1) /\ Field(j, "id", 1).t = "str"

\* Option<SlackView>
OptViewOk(f) == f.t \in {"missing", "null"} \/ SlackViewOk(f)

OptView(f) ==
  IF f.t \in {"missing", "null"} THEN None ELSE Some([id |-> Field(f, "id", 1).v])

\* variant: ts read from the key "timestamp"
SlackPostMessageResponse_timestamp(j) ==
  IF /\ StructShape(j, 4)
     /\ BoolOk(Field(j, "ok", 1))
     /\ OptStringOk(Field(j, "channel", 2))
     /\ OptStringOk(Field(j, "timestamp", 3))
     /\ OptStringOk(Field(j, "error", 4))
  THEN Ok([ok      |-> Field(j, "ok", 1).v,
           channel |-> OptString(Field(j, "channel", 2)),
           ts      |-> OptString(Field(j, "timestamp", 3)),
           error   |-> OptString(Field(j, "error", 4))])
  ELSE Err("decode")

\* variant: an absent error code is filled in with a default
SlackPostMessageResponse_default_error(j) ==
  IF /\ StructShape(j, 4)
     /\ BoolOk(Field(j, "ok", 1))
     /\ OptStringOk(Field(j, "channel", 2))
     /\ OptStringOk(Field(j, "ts", 3))
     /\ OptStringOk(Field(j, "error", 4))
  THEN Ok([ok      |-> Field(j, "ok", 1).v,
           channel |-> OptString(Field(j, "channel", 2)),
           ts      |-> OptString(Field(j, "ts", 3)),
           error   |-> IF Field(j, "error", 4).t = "str"
                         THEN Some(Field(j, "error", 4).v) ELSE Some("unknown")])
  ELSE Err("decode")

SlackPostMessageResponse(j) ==
  IF /\ StructShape(j, 4)
     /\ BoolOk(Field(j, "ok", 1))
     /\ OptStringOk(Field(j, "channel", 2))
     /\ OptStringOk(Field(j, "ts", 3))
     /\ OptStringOk(Field(j, "error", 4))
  THEN Ok([ok      |-> Field(j, "ok", 1).v,
           channel |-> OptString(Field(j, "channel", 2)),
           ts      |-> OptString(Field(j, "ts", 3)),
           error   |-> OptString(Field(j, "error", 4))])
  ELSE Err("decode")

SlackEphemeralResponse(j) ==
  IF /\ StructShape(j, 3)
     /\ BoolOk(Field(j, "ok", 1))
     /\ OptStringOk(Field(j, "message_ts", 2))
     /\ OptStringOk(Field(j, "error", 3))
  THEN Ok([ok         |-> Field(j, "ok", 1).v,
           message_ts |-> OptString(Field(j, "message_ts", 2)),
           error      |-> OptString(Field(j, "error", 3))])
  ELSE Err("decode")

SlackViewOpenResponse(j) ==
  IF /\ StructShape(j, 3)
     /\ BoolOk(Field(j, "ok", 1))
     /\ OptViewOk(Field(j, "view", 2))
     /\ OptStringOk(Field(j, "error", 3))
  THEN Ok([ok    |-> Field(j, "ok", 1).v,
           view  |-> OptView(Field(j, "view", 2)),
           error |-> OptString(Field(j, "error", 3))])
  ELSE Err("decode")

Decode(op, j) ==
  CASE op = "post_message"   -> SlackPostMessageResponse(j)
    [] op = "post_ephemeral" -> SlackEphemeralResponse(j)
    [] op = "open_modal"     -> SlackViewOpenResponse(j)

\* variant: ok carries #[serde(default)], so a missing ok reads as false
json_default_ok(op, resp) ==
  IF resp.body.t = "text" THEN Err("decode")
  ELSE IF resp.body.t = "obj" /\ "ok" \notin DOMAIN resp.body.v
    THEN Decode(op, JObj([x \in DOMAIN resp.body.v \cup {"ok"} |->
                            IF x = "ok" THEN JBool(FALSE) ELSE resp.body.v[x]]))
    ELSE Decode(op, resp.body)

\* variant: a decoded response with ok = false is turned into a failure
json_ok_false_is_err(op, resp) ==
  IF resp.body.t = "text" THEN Err("decode")
  ELSE LET r == Decode(op, resp.body)
       IN  IF r.t = "Ok" /\ ~r.v.ok THEN Err("api") ELSE r

\* variant: error_for_status() before the body is decoded
json_error_for_status(op, resp) ==
  IF resp.status >= 400 THEN Err("status")
  ELSE IF resp.body.t = "text" THEN Err("decode")
  ELSE Decode(op, resp.body)

\* resp.json::<T>() once the body bytes are in: the status is not consulted
json(op, resp) ==
  IF resp.body.t = "text" THEN Err("decode")
  ELSE Decode(op, resp.body)

(***************************************************************************)
(* State                                                                   *)
(***************************************************************************)
VARIABLES
  token,     \* SlackClient.token
  given,     \* the argument SlackClient::new was called with
  calls,     \* the calls made on the client, by call id
  wire       \* bag of the HTTP requests handed to the transport

vars == <<token, given, calls, wire>>

NoCall ==
  [pc |-> "idle", op |-> "", args |-> <<>>, req |-> None,
   resp |-> None, result |-> None, parses |-> 0]

Init ==
  /\ given \in {"xoxb-1", "xoxb-2"}
  /\ token = given
  /\ calls = [c \in CallIds |-> NoCall]
  /\ wire = EmptyBag

(***************************************************************************)
(* Inputs.  The arguments of the calls and the responses of the remote     *)
(* service are drawn from these sets.                                      *)
(***************************************************************************)
Channels == {"C1", "#general"}

Texts == {"hello", ""}

Users == {"U1"}

TriggerIds == {"T1"}

SectionBlocks == JArr(<<JObj([type |-> JStr("section")])>>)

OptBlocks == {None, Some(SectionBlocks), Some(JNull)}

ModalView == JObj([type |-> JStr("modal")])

Views == {ModalView, JNull}

Statuses == {200, 500}

BodySent == JObj([ok |-> JBool(TRUE), channel |-> JStr("C1"), ts |-> JStr("123.45")])

BodyNotFound == JObj([ok |-> JBool(FALSE), error |-> JStr("channel_not_found")])

BodyHtml == JText("<html>502 Bad Gateway</html>")

BodyBoth == JObj([ok |-> JBool(FALSE), channel |-> JStr("C1"), error |-> JStr("e")])

BodyOkWithError == JObj([ok |-> JBool(TRUE), message_ts |-> JStr("1.2"), error |-> JStr("e")])

BodyPositional4 == JArr(<<JBool(TRUE), JStr("C1"), JStr("123.45"), JNull>>)

BodyPositional3 == JArr(<<JBool(FALSE), JNull, JStr("e")>>)

Bodies ==
  { BodySent, BodyNotFound, BodyHtml, BodyBoth, BodyOkWithError,
    BodyPositional4, BodyPositional3,
    JNull,
    JArr(<<>>),
    JObj(<<>>),
    JObj([ok |-> JBool(TRUE)]),
    JObj([ok |-> JBool(FALSE)]),
    JObj([ok |-> JStr("true")]),
    JObj([ok |-> JNull, error |-> JStr("e")]),
    JObj([channel |-> JStr("C1"), ts |-> JStr("123.45")]),
    JObj([ok |-> JBool(TRUE), ts |-> JNum(123)]),
    JObj([ok |-> JBool(TRUE), channel |-> JStr("C1"), ts |-> JStr("123.45"),
          message |-> JObj([text |-> JStr("hello")])]),
    JObj([ok |-> JBool(TRUE), message_ts |-> JStr("123.45")]),
    JObj([ok |-> JBool(TRUE), view |-> JObj([id |-> JStr("V1")])]),
    JObj([ok |-> JBool(TRUE), view |-> JObj(<<>>)]),
    JObj([ok |-> JBool(FALSE), view |-> JNull, error |-> JStr("expired_trigger_id")]) }

(***************************************************************************)
(* The operations.  A call runs from its entry to send().await in one      *)
(* step: it builds the body and hands the request to the transport.        *)
(***************************************************************************)
\* variant: a request equal to one already sent is not sent again
TransmitOnce(w, req) == IF BagIn(req, w) THEN w ELSE w (+) SetToBag({req})

\* .send(): the request goes out, whatever was sent before
Transmit(w, req) == w (+) SetToBag({req})

Begin(c, op, args, req) ==
  /\ calls[c].pc = "idle"
  /\ calls' = [calls EXCEPT ![c] =
                 [pc |-> "send", op |-> op, args |-> args, req |-> Some(req),
                  resp |-> None, result |-> None, parses |-> 0]]
  /\ wire' = Transmit(wire, req)
  /\ UNCHANGED <<token, given>>

post_message(c, channel, text, blocks) ==
  Begin(c, "post_message",
        [channel |-> channel, text |-> text, blocks |-> blocks],
        Request(url_post_message, token, post_message_body(channel, text, blocks)))

post_ephemeral(c, channel, user_id, text, blocks) ==
  Begin(c, "post_ephemeral",
        [channel |-> channel, user_id |-> user_id, text |-> text, blocks |-> blocks],
        Request(url_post_ephemeral, token,
                post_ephemeral_body(channel, user_id, text, blocks)))

open_modal(c, trigger_id, view) ==
  Begin(c, "open_modal",
        [trigger_id |-> trigger_id, view |-> view],
        Request(url_open_modal, token, open_modal_body(trigger_id, view)))

\* variant: a failed send is retried once before the error is returned
SendFailsRetries(c) ==
  /\ calls[c].pc = "send"
  /\ calls' = [calls EXCEPT ![c].pc = "done", ![c].result = Err("transport")]
  /\ wire' = wire (+) SetToBag({calls[c].req.v})
  /\ UNCHANGED <<token, given>>

\* variant: a failed send is treated as an empty body and handed to the parser
SendFailsParsesEmpty(c) ==
  /\ calls[c].pc = "send"
  /\ calls' = [calls EXCEPT ![c].pc = "done",
                            ![c].result = json(calls[c].op, [status |-> 0, body |-> JText("")]),
                            ![c].parses = @ + 1]
  /\ UNCHANGED <<token, given, wire>>

\* send().await? when the transport fails: the ? returns the error at once
SendFails(c) ==
  /\ calls[c].pc = "send"
  /\ calls' = [calls EXCEPT ![c].pc = "done", ![c].result = Err("transport")]
  /\ UNCHANGED <<token, given, wire>>

\* send().await? when a response arrives, of any status
SendResponds(c, status, body) ==
  /\ calls[c].pc = "send"
  /\ calls' = [calls EXCEPT ![c].pc = "json",
                            ![c].resp = Some([status |-> status, body |-> body])]
  /\ UNCHANGED <<token, given, wire>>

\* resp.json().await? when the body cannot be read to its end: the parser is
\* not reached; reqwest reports the error as a body error or as a decode
\* error, depending on its version and on the content encoding
BodyReadFails(c, kind) ==
  /\ calls[c].pc = "json"
  /\ calls' = [calls EXCEPT ![c].pc = "done", ![c].result = Err(kind)]
  /\ UNCHANGED <<token, given, wire>>

\* resp.json().await? on the whole body, then Ok(slack_resp)
JsonReturns(c) ==
  /\ calls[c].pc = "json"
  /\ calls' = [calls EXCEPT ![c].pc = "done",
                            ![c].result = json(calls[c].op, calls[c].resp.v),
                            ![c].parses = @ + 1]
  /\ UNCHANGED <<token, given, wire>>

(***************************************************************************)
(* Spec: MaxCalls calls on one client, in any interleaving (a call may     *)
(* start while others are in flight, or after they returned).              *)
(***************************************************************************)
Next ==
  \E c \in CallIds :
    \/ \E bl \in {None, Some(SectionBlocks)} : post_message(c, "C1", "hello", bl)
    \/ post_ephemeral(c, "C1", "U1", "hello", None)
    \/ open_modal(c, "T1", ModalView)
    \/ SendFails(c)
    \/ \E b \in {BodySent, BodyNotFound, BodyHtml} : SendResponds(c, 200, b)
    \/ \E k \in {"body", "decode"} : BodyReadFails(c, k)
    \/ JsonReturns(c)

Spec == Init /\ [][Next]_vars

(***************************************************************************)
(* SpecOne: one call, over all the arguments and all the responses.        *)
(***************************************************************************)
NextOne ==
  \/ \E ch \in Channels, tx \in Texts, bl \in OptBlocks : post_message(1, ch, tx, bl)
  \/ \E ch \in Channels, u \in Users, tx \in Texts, bl \in OptBlocks :
       post_ephemeral(1, ch, u, tx, bl)
  \/ \E tr \in TriggerIds, vw \in Views : open_modal(1, tr, vw)
  \/ SendFails(1)
  \/ \E st \in Statuses, b \in Bodies : SendResponds(1, st, b)
  \/ \E k \in {"body", "decode"} : BodyReadFails(1, k)
  \/ JsonReturns(1)

SpecOne == Init /\ [][NextOne]_vars

TypeOK ==
  /\ token \in {"xoxb-1", "xoxb-2"}
  /\ \A c \in CallIds :
       /\ calls[c].pc \in {"idle", "send", "json", "done"}
       /\ calls[c].result.t \in {"None", "Ok", "Err"}

(***************************************************************************)
(* Vocabulary of the properties                                            *)
(***************************************************************************)
Ops == {"post_message", "post_ephemeral", "open_modal"}

Started(c) == calls[c].pc # "idle"

Done(c) == calls[c].pc = "done"

\* the call read the whole body and ran the JSON decoder on it
Decoded(c) == Done(c) /\ calls[c].parses > 0

BodyOf(c) == calls[c].resp.v.body

StatusOf(c) == calls[c].resp.v.status

\* the fields of each response struct, in declaration order
FieldOrder(op) ==
  CASE op = "post_message"   -> <<"ok", "channel", "ts", "error">>
    [] op = "post_ephemeral" -> <<"ok", "message_ts", "error">>
    [] op = "open_modal"     -> <<"ok", "view", "error">>

Identifiers(op) ==
  CASE op = "post_message"   -> {"channel", "ts"}
    [] op = "post_ephemeral" -> {"message_ts"}
    [] op = "open_modal"     -> {"view"}

\* a view descriptor: null, or an id string by name or by position
ViewShaped(v) ==
  \/ v.t = "null"
  \/ v.t = "obj" /\ "id" \in DOMAIN v.v /\ v.v["id"].t = "str"
  \/ v.t = "arr" /\ Len(v.v) = 1 /\ v.v[1].t = "str"

FieldShaped(k, f) ==
  CASE k = "ok"   -> f.t = "bool"
    [] k = "view" -> ViewShaped(f)
    [] OTHER      -> f.t \in {"null", "str"}

\* a JSON object with a boolean ok and well-typed optional fields
ObjectShaped(op, j) ==
  /\ j.t = "obj"
  /\ "ok" \in DOMAIN j.v
  /\ \A i \in 1..Len(FieldOrder(op)) :
       FieldOrder(op)[i] \in DOMAIN j.v
         => FieldShaped(FieldOrder(op)[i], j.v[FieldOrder(op)[i]])

\* a JSON array of exactly the struct's fields, in declaration order
PositionalShaped(op, j) ==
  /\ j.t = "arr"
  /\ Len(j.v) = Len(FieldOrder(op))
  /\ \A i \in 1..Len(FieldOrder(op)) : FieldShaped(FieldOrder(op)[i], j.v[i])

WellShaped(op, j) == ObjectShaped(op, j) \/ PositionalShaped(op, j)

\* the value a well-shaped body carries for field k (null when it has none)
At(op, j, k) ==
  IF j.t = "obj"
    THEN (IF k \in DOMAIN j.v THEN j.v[k] ELSE JNull)
    ELSE j.v[CHOOSE i \in 1..Len(FieldOrder(op)) : FieldOrder(op)[i] = k]

Carries(op, j, k) == At(op, j, k).t # "null"

BodyExclusive(op, j) ==
  /\ \A k \in Identifiers(op) : Carries(op, j, k) => At(op, j, "ok").v
  /\ Carries(op, j, "error") => ~At(op, j, "ok").v

ResultExclusive(op, r) ==
  /\ \A k \in Identifiers(op) : r[k].t = "Some" => r.ok
  /\ r.error.t = "Some" => ~r.ok

\* the body each operation is to send for its arguments
ExpectedKeys(op, args) ==
  CASE op = "post_message" ->
         {"channel", "text"} \cup (IF args.blocks.t = "Some" THEN {"blocks"} ELSE {})
    [] op = "post_ephemeral" ->
         {"channel", "user", "text"} \cup (IF args.blocks.t = "Some" THEN {"blocks"} ELSE {})
    [] op = "open_modal" -> {"trigger_id", "view"}

ExpectedValue(op, args, k) ==
  CASE k = "channel"    -> JStr(args.channel)
    [] k = "text"       -> JStr(args.text)
    [] k = "user"       -> JStr(args.user_id)
    [] k = "blocks"     -> args.blocks.v
    [] k = "trigger_id" -> JStr(args.trigger_id)
    [] k = "view"       -> args.view

BodyAsArguments(op, args, body) ==
  /\ DOMAIN body = ExpectedKeys(op, args)
  /\ \A k \in DOMAIN body : body[k] = ExpectedValue(op, args, k)

ExpectedUrl(op) ==
  CASE op = "post_message"   -> "https://slack.com/api/chat.postMessage"
    [] op = "post_ephemeral" -> "https://slack.com/api/chat.postEphemeral"
    [] op = "open_modal"     -> "https://slack.com/api/views.open"

(***************************************************************************)
(* Properties                                                              *)
(***************************************************************************)

\* C1: a call whose send failed before any response was obtained returns the
\* transport failure, which is neither the decode failure nor a result value,
\* and the JSON decoder did not run in that call; a call that did obtain a
\* response never returns the transport failure.
C1_TransportFailureDistinct ==
  \A c \in CallIds :
    Done(c) =>
      /\ calls[c].resp = None =>
           /\ calls[c].result = Err("transport")
           /\ calls[c].result.v \notin {"decode", "body"}
           /\ calls[c].result.t # "Ok"
           /\ calls[c].parses = 0
      /\ calls[c].resp # None => calls[c].result # Err("transport")

C1_Witness ==
  /\ Done(1)
  /\ calls[1].op = "open_modal"
  /\ calls[1].resp = None
  /\ calls[1].result = Err("transport")

\* C2 (as stated): a body that is not a JSON object with a boolean ok and
\* well-typed optional fields makes the call return a failure.
C2_NonObjectBodyFails ==
  \A c \in CallIds :
    (Decoded(c) /\ ~ObjectShaped(calls[c].op, BodyOf(c))) => calls[c].result.t = "Err"

\* C2 (amended): a body that is not valid JSON, or is neither a JSON object
\* with a boolean ok and well-typed optional fields nor a JSON array of
\* exactly the struct's fields in declaration order, makes the call return
\* the decode failure: never a result value, and never one with a defaulted
\* success flag.
C2_MalformedBodyFails ==
  \A c \in CallIds :
    (Decoded(c) /\ ~WellShaped(calls[c].op, BodyOf(c))) => calls[c].result = Err("decode")

C2_Witness ==
  /\ Decoded(1)
  /\ calls[1].op = "post_ephemeral"
  /\ BodyOf(1) = JObj([channel |-> JStr("C1"), ts |-> JStr("123.45")])
  /\ calls[1].result = Err("decode")

\* C3: a response that decodes with ok = false and an error code is returned
\* as a result value carrying ok = false and that same error code.
C3_ApiFailureIsData ==
  \A c \in CallIds :
    ( /\ Decoded(c)
      /\ WellShaped(calls[c].op, BodyOf(c))
      /\ ~At(calls[c].op, BodyOf(c), "ok").v
      /\ At(calls[c].op, BodyOf(c), "error").t = "str" )
    => /\ calls[c].result.t = "Ok"
       /\ calls[c].result.v.ok = FALSE
       /\ calls[c].result.v.error = Some(At(calls[c].op, BodyOf(c), "error").v)

C3_Witness ==
  /\ Decoded(1)
  /\ calls[1].op = "post_ephemeral"
  /\ BodyOf(1) = BodyNotFound
  /\ calls[1].result.t = "Ok"
  /\ calls[1].result.v.error = Some("channel_not_found")

\* C4: no retries: the requests handed to the transport are exactly one per
\* call started, in every state, so a call that returned a transport, decode
\* or API-level failure has issued one request and no more.
C4_OneRequestPerCall ==
  /\ BagCardinality(wire) = Cardinality({c \in CallIds : Started(c)})
  /\ \A c \in CallIds :
       Started(c) =>
         CopiesIn(calls[c].req.v, wire)
           = Cardinality({d \in CallIds : Started(d) /\ calls[d].req = calls[c].req})

C4_Witness ==
  /\ Done(1) /\ calls[1].result = Err("transport")
  /\ Decoded(2) /\ calls[2].result = Err("decode")
  /\ BagCardinality(wire) = 2

\* C5: no deduplication: two post_message calls with identical arguments put
\* two requests on the wire, and a call that returns a result value got it
\* from decoding its own response.
C5_NoDeduplication ==
  \A c, d \in CallIds :
    /\ ( /\ c # d
         /\ Started(c) /\ Started(d)
         /\ calls[c].op = "post_message" /\ calls[d].op = "post_message"
         /\ calls[c].args = calls[d].args )
       => CopiesIn(calls[c].req.v, wire) >= 2
    /\ (Done(c) /\ calls[c].result.t = "Ok")
       => /\ calls[c].resp # None
          /\ calls[c].parses = 1

C5_Witness ==
  /\ Done(1) /\ Done(2)
  /\ calls[1].op = "post_message" /\ calls[2].op = "post_message"
  /\ calls[1].args = calls[2].args
  /\ calls[1].result.t = "Ok" /\ calls[1].result.v.ok
  /\ calls[2].result.t = "Ok" /\ ~calls[2].result.v.ok
  /\ CopiesIn(calls[1].req.v, wire) = 2

\* C6: the body of every request is exactly the operation's arguments under
\* the fixed keys, each value unmodified, blocks only when given, no other key.
C6_BodyIsArguments ==
  \A c \in CallIds :
    Started(c) => BodyAsArguments(calls[c].op, calls[c].args, calls[c].req.v.body)

C6_Witness ==
  /\ Started(1)
  /\ calls[1].op = "post_message"
  /\ calls[1].args.channel = "#general"
  /\ calls[1].args.blocks = None
  /\ DOMAIN calls[1].req.v.body = {"channel", "text"}

\* C7: post_message's result carries ok, channel, ts and error as the response
\* body has them, an absent optional field being none without a failure.
C7_PostMessageMirrorsResponse ==
  \A c \in CallIds :
    (Decoded(c) /\ calls[c].op = "post_message") =>
      /\ BodyOf(c) = BodySent =>
           calls[c].result = Ok([ok |-> TRUE, channel |-> Some("C1"),
                                 ts |-> Some("123.45"), error |-> None])
      /\ BodyOf(c) = BodyNotFound =>
           calls[c].result = Ok([ok |-> FALSE, channel |-> None, ts |-> None,
                                 error |-> Some("channel_not_found")])
      /\ WellShaped("post_message", BodyOf(c)) =>
           /\ calls[c].result.t = "Ok"
           /\ calls[c].result.v.ok = At("post_message", BodyOf(c), "ok").v
           /\ \A k \in {"channel", "ts", "error"} :
                calls[c].result.v[k] =
                  IF Carries("post_message", BodyOf(c), k)
                    THEN Some(At("post_message", BodyOf(c), k).v)
                    ELSE None

C7_Witness ==
  /\ Decoded(1)
  /\ calls[1].op = "post_message"
  /\ BodyOf(1) = BodySent
  /\ calls[1].result.t = "Ok"
  /\ calls[1].result.v.ts = Some("123.45")
  /\ calls[1].result.v.error = None

C9_CredentialAndIsolation ==
  /\ token = given
  /\ \A r \in BagToSet(wire) : r.auth = [scheme |-> "Bearer", token |-> given]
  /\ \A c \in CallIds :
       /\ Started(c) =>
            /\ BagIn(calls[c].req.v, wire)
            /\ calls[c].req.v.url = ExpectedUrl(calls[c].op)
            /\ calls[c].req.v.auth.token = given
            /\ BodyAsArguments(calls[c].op, calls[c].args, calls[c].req.v.body)
       /\ Decoded(c) =>
            /\ WellShaped(calls[c].op, BodyOf(c)) <=> calls[c].result.t = "Ok"
            /\ calls[c].result.t = "Ok" =>
                 calls[c].result.v.ok = At(calls[c].op, BodyOf(c), "ok").v

C9_Witness ==
  /\ given = "xoxb-2"
  /\ calls[1].pc = "json" /\ calls[1].op = "post_message" /\ BodyOf(1) = BodyNotFound
  /\ Decoded(2) /\ calls[2].op = "open_modal" /\ BodyOf(2) = BodySent
  /\ calls[2].result.t = "Ok" /\ calls[2].result.v.ok
  /\ BagCardinality(wire) = 2

\* C10: once a response is obtained and its body read, the status decides
\* nothing: a well-shaped body gives a result value under every status, and
\* the only failure is the decode failure of a body that is not well-shaped.
C10_StatusIgnored ==
  \A c \in CallIds :
    Decoded(c) =>
      /\ WellShaped(calls[c].op, BodyOf(c)) => calls[c].result.t = "Ok"
      /\ calls[c].result.t = "Err" =>
           /\ calls[c].result.v = "decode"
           /\ ~WellShaped(calls[c].op, BodyOf(c))

C10_Witness ==
  /\ Decoded(1)
  /\ StatusOf(1) = 500
  /\ calls[1].op = "open_modal"
  /\ calls[1].result.t = "Ok"
  /\ calls[1].result.v.view = Some([id |-> "V1"])

====
